---------------------------- MODULE Spec2Model ----------------------------
(***************************************************************************)
(* A model of gulpfile.js: the component-set build pipeline.               *)
(*                                                                         *)
(* Strings the code slices or compares character by character (the file    *)
(* names of the styles directory) are sequences of one-character strings;  *)
(* file contents are sequences of tokens, "\n" being the newline.          *)
(*                                                                         *)
(* Three specifications share the actions:                                 *)
(*   Spec       the "build" task (also the default task), line 141         *)
(*   SpecDev    the "dev" task, line 143                                   *)
(*   SpecStyle  compileDesignFile run again and again over many directory  *)
(*              listings, for the claims about the generated design.scss   *)
(***************************************************************************)
EXTENDS Integers, Sequences, FiniteSets, TLC

VARIABLES
  task,            \* the gulp task invoked: "build", "dev", or "style" (the style task alone)
  stage,           \* where gulp.series stands: "start", "parallel", "validate", "zip",
                   \* "watch", "finished", "failed"; "standalone" outside a pipeline
  pipelineError,   \* the error the pipeline ended with, "none" if none
  stylesDir,       \* fs.readdirSync(stylesdir): the entries, in enumeration order
  designScss,      \* the file components/styles/design.scss
  designCss,       \* the file components/styles/design.css
  stylePc,         \* compileDesignFile: "idle", "writing", "done"
  styleContent,    \* generateDesignFile's local `content` while the write is pending
  styleRuns,       \* completed generateDesignFile calls
  sassStream,      \* the gulp.src(...).pipe(sass()).pipe(gulp.dest()) stream:
                   \* "none", "running", "done", "errored"
  sassLog,         \* what sass.logError printed
  scriptDisk,      \* the content of every file of scriptFiles
  vendorPc,        \* generateVendorScript: "idle", "reading", "writing", "done", "failed"
  vendorI,         \* the loop index i, 1-based
  vendorContent,   \* the local `content`
  minifyCalls,     \* the arguments UglifyJS.minify was called with
  minifyResult,    \* the `result` UglifyJS.minify returned
  vendorError,     \* the message of the Error generateVendorScript threw
  scriptsFolder,   \* whether ./components/scripts exists
  vendorJs,        \* the file components/scripts/vendor.js
  validatorResult, \* the last answer of componentsValidator.validateFolder
  activeValidations, \* validateFolder calls in progress
  zipStream,       \* buildComponentSetZip's stream: "none", "running", "done"
  archive,         \* the file dist/<name>.zip
  watcherReady,    \* the watcher emitted 'ready'
  debounceArmed,   \* gulp.watch's debounce timer is pending
  running,         \* gulp.watch: the task is running
  queued,          \* gulp.watch: one more run is queued
  watchTaskError   \* the error a watch-triggered run ended with, "none" if none

pipeVars == <<task, stage, pipelineError>>

styleVars == <<stylesDir, designScss, designCss, stylePc, styleContent,
               styleRuns, sassStream, sassLog>>

vendorVars == <<scriptDisk, vendorPc, vendorI, vendorContent, minifyCalls,
                minifyResult, vendorError, scriptsFolder, vendorJs>>

validateVars == <<validatorResult, activeValidations>>

zipVars == <<zipStream, archive>>

watchVars == <<watcherReady, debounceArmed, running, queued, watchTaskError>>

vars == <<pipeVars, styleVars, vendorVars, validateVars, zipVars, watchVars>>

\* A file that does not exist, and a file with a content.
Absent == [exists |-> FALSE, content |-> <<>>]

File(content) == [exists |-> TRUE, content |-> content]

-----------------------------------------------------------------------------
(* Bounds *)

\* Longest directory listing the style specification starts from.
MaxFiles == 3

\* Number of consecutive runs of the style task the style specification makes.
MaxRuns == 2

\* Cap on the validateFolder calls in progress at once.
MaxActive == 3

-----------------------------------------------------------------------------
(* JavaScript string primitives, on sequences of characters *)

Min(a, b) == IF a < b THEN a ELSE b

Max(a, b) == IF a > b THEN a ELSE b

\* String.prototype.startsWith
startsWith(s, prefix) ==
  /\ Len(s) >= Len(prefix)
  /\ SubSeq(s, 1, Len(prefix)) = prefix

\* String.prototype.slice(start, end), 0-based, negative indexes from the end
slice(s, start, end) ==
  LET from == IF start < 0 THEN Max(Len(s) + start, 0) ELSE Min(start, Len(s))
      to   == IF end < 0 THEN Max(Len(s) + end, 0) ELSE Min(end, Len(s))
  IN  IF from >= to THEN <<>> ELSE SubSeq(s, from + 1, to)

\* 1-based index of the last "." of s, 0 when there is none
LastDot(s) ==
  LET dots == {i \in 1..Len(s) : s[i] = "."}
  IN  IF dots = {} THEN 0 ELSE CHOOSE i \in dots : \A j \in dots : j <= i

\* path.extname on a directory entry: from the last "." on; empty when there is
\* no "." or the only "." is the first character
extname(s) ==
  IF LastDot(s) <= 1 THEN <<>> ELSE SubSeq(s, LastDot(s), Len(s))

-----------------------------------------------------------------------------
(* The style aggregator *)

scssExt == <<".", "s", "c", "s", "s">>

CommonFile == <<"_", "c", "o", "m", "m", "o", "n">> \o scssExt

DesignScssName == <<"d", "e", "s", "i", "g", "n">> \o scssExt

DesignCssName == <<"d", "e", "s", "i", "g", "n", ".", "c", "s", "s">>

\* The entries a styles directory may hold.
FileNames ==
  { CommonFile,
    <<"_", "h", "e", "r", "o">> \o scssExt,
    <<"_", "c", "a", "r", "d">> \o scssExt,
    <<"_">> \o scssExt,
    <<"h", "e", "r", "o">> \o scssExt,
    <<"_", "h", "e", "r", "o", ".", "c", "s", "s">>,
    DesignScssName,
    DesignCssName }

\* Mutant of buildScssString: the slice starts at 0 and keeps the "_" marker.
buildScssStringFromZero(filename) ==
  <<"@import \"">> \o slice(filename, 0, Len(filename) - Len(scssExt))
                   \o <<"\";", "\n">>

\* '@import "' + filename.slice(1, filename.length - scssExt.length) + '";\n'
buildScssString(filename) ==
  <<"@import \"">> \o slice(filename, 1, Len(filename) - Len(scssExt))
                   \o <<"\";", "\n">>

Banner ==
  << "/* ", "\n",
     " * This file has been generated while building the components package. ", "\n",
     " * PLEASE DO NOT MODIFY THIS FILE BY HAND. ", "\n",
     " */", "\n" >>

\* Mutant of IsPartial: the startsWith('_') test is missing.
IsPartialAnyScss(file) == extname(file) = scssExt

\* The condition of line 74.
IsPartial(file) == startsWith(file, <<"_">>) /\ extname(file) = scssExt

\* Mutant of DesignImports: the common partial is appended like any other.
RECURSIVE DesignImportsAppendOnly(_, _)
DesignImportsAppendOnly(files, content) ==
  IF files = <<>> THEN content
  ELSE DesignImportsAppendOnly(Tail(files),
         IF IsPartial(Head(files)) THEN content \o buildScssString(Head(files))
                                   ELSE content)

\* The loop of lines 73-82 over the rest of the listing.
RECURSIVE DesignImports(_, _)
DesignImports(files, content) ==
  IF files = <<>> THEN content
  ELSE LET file == Head(files)
           next == IF IsPartial(file)
                     THEN IF file # CommonFile
                            THEN content \o buildScssString(file)
                            ELSE buildScssString(file) \o content
                     ELSE content
       IN  DesignImports(Tail(files), next)

\* generateDesignFile's content at line 87.
DesignContent(listing) == Banner \o DesignImports(listing, <<>>)

\* The listing after `name` has been created (a new entry may be enumerated at
\* any position) or overwritten (an existing entry keeps its position).
Created(listing, name) ==
  IF \E i \in 1..Len(listing) : listing[i] = name
    THEN {listing}
    ELSE { SubSeq(listing, 1, k) \o <<name>> \o SubSeq(listing, k + 1, Len(listing))
             : k \in 0..Len(listing) }

-----------------------------------------------------------------------------
(* The orchestration of line 141 and line 143: gulp.series over gulp.parallel *)

ValidationMessage == "Package failed validation. See errors above."

\* The stage gulp.series enters when gulp.parallel has ended well: it calls
\* validate (build) or watch (dev).
AfterParallel == IF task = "build" THEN "validate" ELSE "watch"

\* A task of gulp.parallel has settled. The first error ends the parallel and
\* with it the series; when both tasks have ended well the series calls its
\* next function at once.
Settle(styleDone, vendorDone, err) ==
  IF stage # "parallel"
    THEN UNCHANGED <<stage, pipelineError, activeValidations>>
  ELSE IF err # "none"
    THEN /\ stage' = "failed"
         /\ pipelineError' = err
         /\ UNCHANGED activeValidations
  ELSE IF styleDone /\ vendorDone
    THEN /\ stage' = AfterParallel
         /\ activeValidations' = IF task = "build" THEN 1 ELSE 0
         /\ UNCHANGED pipelineError
  ELSE UNCHANGED <<stage, pipelineError, activeValidations>>

-----------------------------------------------------------------------------
(* compileDesignFile, lines 93-98, with generateDesignFile, lines 69-88 *)

\* compileDesignFile is called: generateDesignFile runs up to its await, the
\* write of design.scss is pending.
StyleBegin ==
  /\ stylePc = "idle"
  /\ stylePc' = "writing"
  /\ styleContent' = DesignContent(stylesDir)
  /\ UNCHANGED <<stylesDir, designScss, designCss, styleRuns, sassStream, sassLog>>

\* The style task called on its own.
StyleStart ==
  /\ task = "style"
  /\ StyleBegin
  /\ UNCHANGED <<pipeVars, vendorVars, validateVars, zipVars, watchVars>>

\* writeFileAsync resolves; compileDesignFile builds the stream and returns it
\* from the async function. gulp is handed a promise, not the stream: the
\* promise resolves at once, and the task counts as ended while the stream has
\* only begun.
StyleWritten ==
  /\ stylePc = "writing"
  /\ designScss' = File(styleContent)
  /\ stylesDir' \in Created(stylesDir, DesignScssName)
  /\ stylePc' = "done"
  /\ styleRuns' = styleRuns + 1
  /\ sassStream' = "running"
  /\ styleContent' = <<>>
  /\ Settle(TRUE, vendorPc = "done", "none")
  /\ UNCHANGED <<task, designCss, sassLog, vendorVars, validatorResult, zipVars,
                 watchVars>>

\* The output of the style compiler for a source.
Compiled(source) == <<"css of">> \o source

\* The stream ends: design.css is written beside design.scss.
SassCompiled ==
  /\ sassStream = "running"
  /\ sassStream' = "done"
  /\ designCss' = File(Compiled(designScss.content))
  /\ stylesDir' \in Created(stylesDir, DesignCssName)
  /\ UNCHANGED <<designScss, stylePc, styleContent, styleRuns, sassLog>>
  /\ UNCHANGED <<pipeVars, vendorVars, validateVars, zipVars, watchVars>>

\* Mutant of SassError: the error of the stream fails the pipeline.
SassErrorThrown ==
  /\ sassStream = "running"
  /\ sassStream' = "errored"
  /\ sassLog' = "logged"
  /\ stage' = IF stage \in {"parallel", "validate", "zip"} THEN "failed" ELSE stage
  /\ pipelineError' = IF stage \in {"parallel", "validate", "zip"}
                        THEN "sass error" ELSE pipelineError
  /\ UNCHANGED <<stylesDir, designScss, designCss, stylePc, styleContent, styleRuns>>
  /\ UNCHANGED <<task, vendorVars, validateVars, zipVars, watchVars>>

\* sass emits 'error': sass.logError prints it and ends the stream.
SassError ==
  /\ sassStream = "running"
  /\ sassStream' = "errored"
  /\ sassLog' = "logged"
  /\ UNCHANGED <<stylesDir, designScss, designCss, stylePc, styleContent, styleRuns>>
  /\ UNCHANGED <<pipeVars, vendorVars, validateVars, zipVars, watchVars>>

\* The style task is called again (a later build) once the previous run ended.
StyleRerun ==
  /\ task = "style"
  /\ stylePc = "done"
  /\ sassStream \in {"done", "errored"}
  /\ styleRuns < MaxRuns
  /\ stylePc' = "idle"
  /\ sassStream' = "none"
  /\ UNCHANGED <<stylesDir, designScss, designCss, styleContent, styleRuns, sassLog>>
  /\ UNCHANGED <<pipeVars, vendorVars, validateVars, zipVars, watchVars>>

-----------------------------------------------------------------------------
(* generateVendorScript, lines 103-120 *)

scriptFiles ==
  << "scripts/dpsHTMLGestureAPI.min.js",
     "scripts/jquery.js",
     "scripts/jquery.mobile.options.js",
     "scripts/jquery.mobile.js",
     "scripts/fullscreen.support.js",
     "scripts/jssor.js",
     "scripts/jssor.slider.js",
     "scripts/slideshow.js",
     "scripts/heroes.js",
     "scripts/video.js" >>

ScriptSet == {scriptFiles[i] : i \in 1..Len(scriptFiles)}

\* The contents the script files may have: every file its own body; every file
\* the same body; some files empty, the others ending in a newline.
Disks ==
  { [f \in ScriptSet |-> <<"body of", f>>],
    [f \in ScriptSet |-> <<"x">>],
    [f \in ScriptSet |->
       IF f \in {"scripts/jquery.js", "scripts/video.js"} THEN <<>> ELSE <<"y", "\n">>] }

\* The messages the minifier may report.
MinifyMessages == {"Unexpected token", "Unterminated string constant"}

\* The code the minifier returns for an input it accepts.
Minified(content) == <<"minified">> \o content

\* Mutant of AppendScript: the file is put in front of what was read before.
AppendScriptInFront(content, body) == body \o <<"\n">> \o content

\* content += (await readFileAsync(scriptFiles[i])).toString() + '\n'
AppendScript(content, body) == content \o body \o <<"\n">>

\* generateVendorScript is called: the first read is issued.
VendorBegin ==
  /\ vendorPc = "idle"
  /\ vendorPc' = "reading"
  /\ vendorI' = 1
  /\ vendorContent' = <<>>
  /\ UNCHANGED <<scriptDisk, minifyCalls, minifyResult, vendorError,
                 scriptsFolder, vendorJs>>

\* A read other than the last resolves: the next one is issued.
VendorRead ==
  /\ vendorPc = "reading"
  /\ vendorI < Len(scriptFiles)
  /\ vendorContent' = AppendScript(vendorContent, scriptDisk[scriptFiles[vendorI]])
  /\ vendorI' = vendorI + 1
  /\ UNCHANGED <<scriptDisk, vendorPc, minifyCalls, minifyResult, vendorError,
                 scriptsFolder, vendorJs>>
  /\ UNCHANGED <<pipeVars, styleVars, validateVars, zipVars, watchVars>>

\* The content after the last read.
FullContent == AppendScript(vendorContent, scriptDisk[scriptFiles[vendorI]])

\* Mutant of VendorMinifyError: vendor.js is written before the error is looked at.
VendorMinifyErrorAfterWrite ==
  /\ vendorPc = "reading"
  /\ vendorI = Len(scriptFiles)
  /\ \E m \in MinifyMessages :
       /\ minifyResult' = [error |-> m, code |-> <<>>]
       /\ vendorError' = m
       /\ Settle(stylePc = "done", FALSE, m)
  /\ vendorContent' = FullContent
  /\ minifyCalls' = Append(minifyCalls, FullContent)
  /\ vendorPc' = "failed"
  /\ vendorI' = vendorI + 1
  /\ scriptsFolder' = TRUE
  /\ vendorJs' = File(<<>>)
  /\ UNCHANGED <<scriptDisk>>
  /\ UNCHANGED <<task, styleVars, validatorResult, zipVars, watchVars>>

\* The last read resolves and the minifier reports an error: the function
\* throws an Error with the minifier's message.
VendorMinifyError ==
  /\ vendorPc = "reading"
  /\ vendorI = Len(scriptFiles)
  /\ \E m \in MinifyMessages :
       /\ minifyResult' = [error |-> m, code |-> <<>>]
       /\ vendorError' = m
       /\ Settle(stylePc = "done", FALSE, m)
  /\ vendorContent' = FullContent
  /\ minifyCalls' = Append(minifyCalls, FullContent)
  /\ vendorPc' = "failed"
  /\ vendorI' = vendorI + 1
  /\ UNCHANGED <<scriptDisk, scriptsFolder, vendorJs>>
  /\ UNCHANGED <<task, styleVars, validatorResult, zipVars, watchVars>>

\* The last read resolves and the minifier returns code: the target folder is
\* made when it is missing and the write of vendor.js is issued.
VendorMinifyOk ==
  /\ vendorPc = "reading"
  /\ vendorI = Len(scriptFiles)
  /\ vendorContent' = FullContent
  /\ minifyCalls' = Append(minifyCalls, FullContent)
  /\ minifyResult' = [error |-> "none", code |-> Minified(FullContent)]
  /\ scriptsFolder' = TRUE
  /\ vendorPc' = "writing"
  /\ vendorI' = vendorI + 1
  /\ UNCHANGED <<scriptDisk, vendorError, vendorJs>>
  /\ UNCHANGED <<pipeVars, styleVars, validateVars, zipVars, watchVars>>

\* writeFileAsync of vendor.js resolves: the task ends.
VendorWritten ==
  /\ vendorPc = "writing"
  /\ vendorJs' = File(minifyResult.code)
  /\ vendorPc' = "done"
  /\ Settle(stylePc = "done", TRUE, "none")
  /\ UNCHANGED <<scriptDisk, vendorI, vendorContent, minifyCalls, minifyResult,
                 vendorError, scriptsFolder>>
  /\ UNCHANGED <<task, styleVars, validatorResult, zipVars, watchVars>>

\* gulp.parallel(compileDesignFile, generateVendorScript) calls both functions,
\* one after the other, before any of their reads or writes can resolve.
StartParallel ==
  /\ stage = "start"
  /\ stage' = "parallel"
  /\ StyleBegin
  /\ VendorBegin
  /\ UNCHANGED <<task, pipelineError, validateVars, zipVars, watchVars>>

-----------------------------------------------------------------------------
(* validate, lines 59-64, and buildComponentSetZip, lines 125-130 *)

\* Mutant of ValidateThrows: the answer of the validator is not looked at.
ValidateNeverThrows(valid) == FALSE

\* if (!valid) throw
ValidateThrows(valid) == ~valid

\* validateFolder resolves in the build: validate throws or returns, and the
\* series stops or calls buildComponentSetZip.
ValidateDone ==
  /\ stage = "validate"
  /\ activeValidations' = activeValidations - 1
  /\ \E valid \in BOOLEAN :
       /\ validatorResult' = IF valid THEN "valid" ELSE "invalid"
       /\ IF ValidateThrows(valid)
            THEN /\ stage' = "failed"
                 /\ pipelineError' = ValidationMessage
                 /\ UNCHANGED zipStream
            ELSE /\ stage' = "zip"
                 /\ zipStream' = "running"
                 /\ UNCHANGED pipelineError
  /\ UNCHANGED <<task, archive, styleVars, vendorVars, watchVars>>

\* The zip stream ends: dist/<name>.zip is written and the build is over.
ZipDone ==
  /\ stage = "zip"
  /\ zipStream = "running"
  /\ zipStream' = "done"
  /\ archive' = File(<<"zip of components">>)
  /\ stage' = "finished"
  /\ UNCHANGED <<task, pipelineError, styleVars, vendorVars, validateVars, watchVars>>

-----------------------------------------------------------------------------
(* watch, lines 135-139, and validateNoBail, lines 52-54 *)

\* gulp.watch(glob, task) is called with its default options, delay: 200 and
\* queue: true. Every file event re-arms one debounce timer; when the timer
\* fires while the task runs, one more run is queued and starts when the
\* running one ends.

\* Mutant of OnChangeStarts: the task is started whether or not it is running.
OnChangeAlwaysStarts(isRunning) == TRUE

\* Whether the watcher starts the task when the debounce timer fires.
OnChangeStarts(isRunning) == ~isRunning

\* Mutant of ValidateNoBailThrows: validateNoBail throws as validate does.
ValidateNoBailThrowsOnInvalid(valid) == ~valid

\* validateNoBail awaits the validator and drops its answer.
ValidateNoBailThrows(valid) == FALSE

\* The watcher has scanned the folder: 'ready' is logged.
WatcherReady ==
  /\ stage = "watch"
  /\ ~watcherReady
  /\ watcherReady' = TRUE
  /\ UNCHANGED <<debounceArmed, running, queued, watchTaskError>>
  /\ UNCHANGED <<pipeVars, styleVars, vendorVars, validateVars, zipVars>>

\* A file under components/ is added, changed or removed.
FileChange ==
  /\ stage = "watch"
  /\ debounceArmed' = TRUE
  /\ UNCHANGED <<watcherReady, running, queued, watchTaskError>>
  /\ UNCHANGED <<pipeVars, styleVars, vendorVars, validateVars, zipVars>>

\* The debounce timer fires: one change-batch is reported.
DebounceFire ==
  /\ stage = "watch"
  /\ debounceArmed
  /\ debounceArmed' = FALSE
  /\ IF OnChangeStarts(running)
       THEN /\ activeValidations < MaxActive
            /\ running' = TRUE
            /\ activeValidations' = activeValidations + 1
            /\ UNCHANGED queued
       ELSE /\ queued' = TRUE
            /\ UNCHANGED <<running, activeValidations>>
  /\ UNCHANGED <<watcherReady, watchTaskError, validatorResult>>
  /\ UNCHANGED <<pipeVars, styleVars, vendorVars, zipVars>>

\* validateFolder resolves in a watch-triggered run: the run ends, and a queued
\* run starts at once.
WatchValidateDone ==
  /\ stage = "watch"
  /\ activeValidations > 0
  /\ \E valid \in BOOLEAN :
       /\ validatorResult' = IF valid THEN "valid" ELSE "invalid"
       /\ watchTaskError' = IF ValidateNoBailThrows(valid)
                              THEN ValidationMessage ELSE watchTaskError
  /\ IF queued
       THEN /\ queued' = FALSE
            /\ running' = TRUE
            /\ activeValidations' = activeValidations
       ELSE /\ running' = FALSE
            /\ activeValidations' = activeValidations - 1
            /\ UNCHANGED queued
  /\ UNCHANGED <<watcherReady, debounceArmed>>
  /\ UNCHANGED <<pipeVars, styleVars, vendorVars, zipVars>>

-----------------------------------------------------------------------------
(* Initial states and specifications *)

\* Sequences without repetition of at most n entries of S.
Listings(S, n) ==
  UNION { { f \in [1..k -> S] : \A i, j \in 1..k : i # j => f[i] # f[j] }
            : k \in 0..n }

\* What a design.scss left by an earlier build holds.
StaleDesign == <<"stale">>

InitStyleFiles(listings) ==
  /\ stylesDir \in listings
  /\ designScss = IF \E i \in 1..Len(stylesDir) : stylesDir[i] = DesignScssName
                    THEN File(StaleDesign) ELSE Absent
  /\ designCss = IF \E i \in 1..Len(stylesDir) : stylesDir[i] = DesignCssName
                   THEN File(Compiled(StaleDesign)) ELSE Absent
  /\ stylePc = "idle"
  /\ styleContent = <<>>
  /\ styleRuns = 0
  /\ sassStream = "none"
  /\ sassLog = "none"

InitVendor(disks, folders) ==
  /\ scriptDisk \in disks
  /\ vendorPc = "idle"
  /\ vendorI = 1
  /\ vendorContent = <<>>
  /\ minifyCalls = <<>>
  /\ minifyResult = [error |-> "none", code |-> <<>>]
  /\ vendorError = "none"
  /\ scriptsFolder \in folders
  /\ vendorJs \in (IF scriptsFolder THEN {Absent, File(<<"old vendor.js">>)}
                                    ELSE {Absent})

InitRest ==
  /\ pipelineError = "none"
  /\ validatorResult = "none"
  /\ activeValidations = 0
  /\ zipStream = "none"
  /\ watcherReady = FALSE
  /\ debounceArmed = FALSE
  /\ running = FALSE
  /\ queued = FALSE
  /\ watchTaskError = "none"

\* The listings the pipelines start from: a fresh checkout, and a folder an
\* earlier build has left its generated files in.
PipelineListings ==
  { << <<"_", "h", "e", "r", "o">> \o scssExt, CommonFile >>,
    << DesignScssName, <<"_", "c", "a", "r", "d">> \o scssExt, DesignCssName >> }

InitStyle ==
  /\ task = "style"
  /\ stage = "standalone"
  /\ InitStyleFiles(Listings(FileNames, MaxFiles))
  /\ InitVendor({[f \in ScriptSet |-> <<"x">>]}, {FALSE})
  /\ archive = Absent
  /\ InitRest

NextStyle == StyleStart \/ StyleWritten \/ SassCompiled \/ SassError \/ StyleRerun

SpecStyle == InitStyle /\ [][NextStyle]_vars

InitBuild ==
  /\ task = "build"
  /\ stage = "start"
  /\ InitStyleFiles(PipelineListings)
  /\ InitVendor(Disks, BOOLEAN)
  /\ archive \in {Absent, File(<<"old archive">>)}
  /\ InitRest

NextBuild ==
  \/ StartParallel
  \/ StyleWritten
  \/ SassCompiled
  \/ SassError
  \/ VendorRead
  \/ VendorMinifyError
  \/ VendorMinifyOk
  \/ VendorWritten
  \/ ValidateDone
  \/ ZipDone

\* Every read, write, stream and validator call of a build ends: the process
\* runs until nothing is pending.
Spec == InitBuild /\ [][NextBuild]_vars /\ WF_vars(NextBuild)

InitDev ==
  /\ task = "dev"
  /\ stage = "start"
  /\ InitStyleFiles(PipelineListings)
  /\ InitVendor(Disks, BOOLEAN)
  /\ archive = Absent
  /\ InitRest

NextDev ==
  \/ StartParallel
  \/ StyleWritten
  \/ SassCompiled
  \/ SassError
  \/ VendorRead
  \/ VendorMinifyError
  \/ VendorMinifyOk
  \/ VendorWritten
  \/ WatcherReady
  \/ FileChange
  \/ DebounceFire
  \/ WatchValidateDone

\* The debounce timer fires once it is armed, and every call of the validator
\* returns.
SpecDev ==
  /\ InitDev
  /\ [][NextDev]_vars
  /\ WF_vars(DebounceFire)
  /\ WF_vars(WatchValidateDone)

-----------------------------------------------------------------------------
(* Reading a generated file back: its lines, and the import lines after the
   banner *)

RECURSIVE SplitLines(_, _, _)
SplitLines(content, line, acc) ==
  IF content = <<>> THEN (IF line = <<>> THEN acc ELSE Append(acc, line))
  ELSE IF Head(content) = "\n"
         THEN SplitLines(Tail(content), <<>>, Append(acc, line))
         ELSE SplitLines(Tail(content), Append(line, Head(content)), acc)

Lines(content) == SplitLines(content, <<>>, <<>>)

BannerLines ==
  << <<"/* ">>,
     <<" * This file has been generated while building the components package. ">>,
     <<" * PLEASE DO NOT MODIFY THIS FILE BY HAND. ">>,
     <<" */">> >>

HasBanner(content) ==
  /\ Len(Lines(content)) >= Len(BannerLines)
  /\ SubSeq(Lines(content), 1, Len(BannerLines)) = BannerLines

ImportLines(content) ==
  SubSeq(Lines(content), Len(BannerLines) + 1, Len(Lines(content)))

InDir(name) == \E i \in 1..Len(stylesDir) : stylesDir[i] = name

\* A file "whose name starts with '_' and has the extension '.scss'".
Qualifies(file) ==
  /\ Len(file) > Len(scssExt)
  /\ file[1] = "_"
  /\ SubSeq(file, Len(file) - Len(scssExt) + 1, Len(file)) = scssExt

NotCommon(file) == file # CommonFile

\* The import line that references `file` without its "_" and its ".scss".
ImportOf(file) ==
  <<"@import \"">> \o SubSeq(file, 2, Len(file) - Len(scssExt)) \o <<"\";">>

ImportOfCommon == <<"@import \"", "c", "o", "m", "m", "o", "n", "\";">>

NotCommonLine(line) == line # ImportOfCommon

QualifyingFiles == SelectSeq(stylesDir, Qualifies)

\* The content the current or last run of generateDesignFile writes.
Generated == IF stylePc = "writing" THEN styleContent ELSE designScss.content

HasGenerated == stylePc = "writing" \/ styleRuns >= 1

\* C1: whenever the styles directory holds _common.scss, the first line after
\* the banner of the content generateDesignFile writes is the import of
\* "common", wherever _common.scss stands in the enumeration.
C1_CommonFirst ==
  (HasGenerated /\ InDir(CommonFile)) =>
     /\ HasBanner(Generated)
     /\ Len(ImportLines(Generated)) >= 1
     /\ ImportLines(Generated)[1] = ImportOfCommon

\* C1 witness: a design.scss was written from a listing in which another
\* partial is enumerated before _common.scss.
C1_Witness ==
  /\ styleRuns >= 1
  /\ \E i, j \in 1..Len(stylesDir) :
        /\ i < j
        /\ Qualifies(stylesDir[i])
        /\ stylesDir[j] = CommonFile

\* C5: the written content holds exactly one import line per entry that starts
\* with "_" and has the extension ".scss", none for any other entry, each line
\* naming the entry without "_" and ".scss", and the lines of the partials
\* other than common follow the enumeration order.
C5_OneImportPerPartial ==
  HasGenerated =>
    LET lines == ImportLines(Generated)
        files == QualifyingFiles
    IN  /\ HasBanner(Generated)
        /\ Len(lines) = Len(files)
        /\ \A i \in 1..Len(files) :
             Cardinality({k \in 1..Len(lines) : lines[k] = ImportOf(files[i])}) = 1
        /\ \A k \in 1..Len(lines) :
             \E i \in 1..Len(files) : lines[k] = ImportOf(files[i])
        /\ SelectSeq(lines, NotCommonLine)
             = [i \in 1..Len(SelectSeq(files, NotCommon)) |->
                  ImportOf(SelectSeq(files, NotCommon)[i])]

\* C5 witness: a written design.scss for a directory with two partials other
\* than common and an entry that is no partial besides the generated files.
C5_Witness ==
  /\ styleRuns >= 1
  /\ Len(SelectSeq(QualifyingFiles, NotCommon)) >= 2
  /\ \E i \in 1..Len(stylesDir) :
        /\ ~Qualifies(stylesDir[i])
        /\ stylesDir[i] \notin {DesignScssName, DesignCssName}

\* C10: once a run has written design.scss, no later run over the same
\* partials changes its content: design.scss and design.css, now entries of
\* the directory, are never selected as partials.
C10_Idempotent == [][styleRuns >= 1 => designScss' = designScss]_vars

\* C10 witness: a second run has written design.scss with design.scss and the
\* compiled design.css both enumerated among the entries it read.
C10_Witness ==
  /\ styleRuns >= 2
  /\ stylePc = "done"
  /\ InDir(DesignScssName)
  /\ InDir(DesignCssName)
  /\ designCss.exists
  /\ Len(QualifyingFiles) >= 1

-----------------------------------------------------------------------------
(* The build pipeline *)

\* C2: in the build, once the validator has answered false the pipeline has
\* ended in the validation error, buildComponentSetZip has not been started,
\* and the archive stays as it was.
C2_NoArchiveAfterFailedValidation ==
  /\ [](validatorResult = "invalid" =>
          /\ stage = "failed"
          /\ pipelineError = ValidationMessage
          /\ zipStream = "none")
  /\ [][validatorResult' = "invalid" => archive' = archive]_vars

\* C2 witness: the validator answered false in a build that had an archive of
\* an earlier build on disk.
C2_Witness ==
  /\ validatorResult = "invalid"
  /\ stage = "failed"
  /\ archive = File(<<"old archive">>)

\* C3: validation is in progress only when design.scss has been generated and
\* compiled (the stream has ended) and vendor.js has been written.
C3_ValidateAfterBoth ==
  stage = "validate" =>
    /\ stylePc = "done"
    /\ sassStream \in {"done", "errored"}
    /\ vendorPc = "done"

\* C4: when the minifier reports an error, generateVendorScript fails with the
\* minifier's message, and neither in that step nor later is vendor.js or its
\* folder touched.
C4_MinifyErrorWritesNothing ==
  /\ [](minifyResult.error # "none" =>
          /\ vendorPc = "failed"
          /\ vendorError = minifyResult.error)
  /\ [][minifyResult'.error # "none" =>
          /\ vendorJs' = vendorJs
          /\ scriptsFolder' = scriptsFolder]_vars

\* C4 witness: the minifier reported an error in a build that started without
\* the target folder.
C4_Witness ==
  /\ minifyResult.error \in MinifyMessages
  /\ vendorPc = "failed"
  /\ ~scriptsFolder
  /\ ~vendorJs.exists

\* The contents of the first k script files, in list order, a newline after each.
RECURSIVE ScriptsInOrder(_)
ScriptsInOrder(k) ==
  IF k = 0 THEN <<>>
  ELSE ScriptsInOrder(k - 1) \o scriptDisk[scriptFiles[k]] \o <<"\n">>

\* C6: what the minifier is handed is the contents of the files of scriptFiles
\* in list order, each followed by one newline, each once; and while the files
\* are read, what has been gathered is that of the files read so far.
C6_BundleInListOrder ==
  /\ \A k \in 1..Len(minifyCalls) : minifyCalls[k] = ScriptsInOrder(Len(scriptFiles))
  /\ vendorPc = "reading" => vendorContent = ScriptsInOrder(vendorI - 1)
  /\ vendorPc \in {"writing", "done", "failed"} => Len(minifyCalls) = 1

\* C6 witness: the minifier was called in a build whose script files all differ.
C6_Witness ==
  /\ Len(minifyCalls) = 1
  /\ \A i, j \in 1..Len(scriptFiles) :
        i # j => scriptDisk[scriptFiles[i]] # scriptDisk[scriptFiles[j]]

\* C8: an error of the style compiler is logged and changes neither the stage
\* nor the error of the pipeline; the pipeline only ever fails with the
\* validation error or a minifier message; and after a compile error the build
\* still runs to its end, with the archive written when validation passed.
C8_CompileErrorNotFatal ==
  /\ [][(sassStream' = "errored" /\ sassStream # "errored") =>
          /\ sassLog' = "logged"
          /\ stage' = stage
          /\ pipelineError' = pipelineError]_vars
  /\ [](pipelineError \in {"none", ValidationMessage} \cup MinifyMessages)
  /\ [](sassStream = "errored" /\ stage = "finished" =>
          /\ validatorResult = "valid"
          /\ archive = File(<<"zip of components">>))
  /\ (sassStream = "errored" ~> stage \in {"finished", "failed"})

\* C8 witness: the compiler failed while validation was in progress.
C8_Witness ==
  /\ sassStream = "errored"
  /\ sassLog = "logged"
  /\ stage = "validate"

-----------------------------------------------------------------------------
(* The dev pipeline *)

\* C7: once the watch is started it never ends and no validator answer raises
\* an error; every change-batch starts a validation run or, when one is
\* running, queues one; a queued run starts when the running one ends; every
\* armed batch is reported and every queued run is started.
C7_WatchSurvivesInvalid ==
  /\ [][stage = "watch" =>
          /\ stage' = "watch"
          /\ pipelineError' = pipelineError
          /\ watchTaskError' = "none"]_vars
  /\ [][(debounceArmed /\ ~debounceArmed') =>
          /\ running'
          /\ IF running THEN queued'
                        ELSE activeValidations' = activeValidations + 1]_vars
  /\ [][(queued /\ ~queued') => (running' /\ activeValidations' >= 1)]_vars
  /\ (debounceArmed ~> ~debounceArmed)
  /\ (queued ~> ~queued)

\* C7 witness: after an answer of false, a later change-batch has started a
\* validation run.
C7_Witness ==
  /\ stage = "watch"
  /\ validatorResult = "invalid"
  /\ running
  /\ activeValidations = 1
  /\ ~debounceArmed

\* C9 as stated: a change-batch that arrives while a validation run is in
\* progress starts a second run.
C9_OverlappingRuns ==
  [][(debounceArmed /\ ~debounceArmed' /\ activeValidations >= 1) =>
        activeValidations' = activeValidations + 1]_vars

\* C9 amended: at most one validation run is in progress; a change-batch that
\* arrives while one is running starts none and queues one run.
C9_SingleRunQueued ==
  /\ [](/\ activeValidations <= 1
        /\ (stage = "watch" => (running <=> activeValidations = 1))
        /\ (queued => running))
  /\ [][(debounceArmed /\ ~debounceArmed' /\ running) =>
          /\ queued'
          /\ activeValidations' = activeValidations]_vars

\* C9 witness: a change-batch arrived while a validation run was in progress.
C9_Witness ==
  /\ stage = "watch"
  /\ running
  /\ queued
  /\ activeValidations = 1

=============================================================================
